---- MODULE Spec2Model ----
(***************************************************************************)
(* pyflagser: the python wrapper flagser() around the flagser engine        *)
(* (src/pyflagser/flagser.py) and the flag-file round trip exercised by     *)
(* src/pyflagser/tests/test_flagio.py.                                      *)
(*                                                                          *)
(* A flagser call is one action: it reads the caller's matrix, builds the   *)
(* vertex and edge arrays, normalises the parameters and invokes            *)
(* compute_homology. The engine itself is external; the model records the   *)
(* arguments it is handed.                                                  *)
(***************************************************************************)
EXTENDS Integers, Sequences, FiniteSets, TLC

VARIABLES
    flag_matrix,   \* the caller's matrix object
    first,         \* what the first flagser call of the run did
    last,          \* what the most recent flagser call did
    ncalls,        \* number of flagser calls made so far
    pc,            \* test_weighted: the statement to run next
    flag_file,     \* test_weighted: the lines of the flag file under test
    max_edge_length,   \* test_weighted: the threshold of the parametrization
    adjacency_matrix,  \* test_weighted: the loaded matrix
    fname_temp,    \* test_weighted: the temporary file, when it exists
    graph_a,       \* test_weighted: vertices_a, edges_a
    graph_b        \* test_weighted: vertices_b, edges_b

fvars == <<flag_matrix, first, last, ncalls>>

iovars == <<pc, flag_file, max_edge_length, adjacency_matrix, fname_temp,
            graph_a, graph_b>>

vars == <<flag_matrix, first, last, ncalls, pc, flag_file, max_edge_length,
          adjacency_matrix, fname_temp, graph_a, graph_b>>

(***************************************************************************)
(* Bounds of the model.                                                     *)
(***************************************************************************)
MaxN == 2          \* matrices have at most MaxN rows and MaxN columns
MaxStored == 2     \* a sparse matrix stores at most MaxStored entries
MaxCalls == 3      \* a run makes at most MaxCalls flagser calls
MaxFileN == 2      \* a flag file declares at most MaxFileN vertices
MaxFileEdges == 2  \* a flag file holds at most MaxFileEdges edge lines

Weights == {0, 1, 2}

(***************************************************************************)
(* Matrices.                                                                *)
(*   ndarray: shape and the row-major sequence of its cells (.flat)         *)
(*   sparse : shape and the stored entries <<i, j, v>> in the order tocoo() *)
(*            yields them; a position may be stored more than once.         *)
(* A dtype is a numpy dtype object, written by its repr.                    *)
(***************************************************************************)
DtypeBool == "dtype('bool')"
DtypeInt == "dtype('int64')"
Dtypes == {DtypeBool, DtypeInt}

\* the python builtin type `bool` named on line 108
PyBool == "<class 'bool'>"

CellValues(d) == IF d = DtypeBool THEN BOOLEAN ELSE Weights

BoundedSeq(S, n) == UNION {[1..k -> S] : k \in 0..n}

DenseMatrices(n) ==
    UNION {UNION {{[kind |-> "ndarray", dtype |-> d, shape |-> <<r, c>>, flat |-> f,
                    entries |-> <<>>] :
                        f \in [1..(r * c) -> CellValues(d)]} : d \in Dtypes} :
                r \in 0..n, c \in 0..n}

SparseMatrices(n, stored) ==
    UNION {{[kind |-> "sparse", dtype |-> DtypeInt, shape |-> <<r, c>>, flat |-> <<>>,
             entries |-> e] :
                e \in BoundedSeq((0..(r - 1)) \X (0..(c - 1)) \X Weights, stored)} :
                r \in 0..n, c \in 0..n}

Min(a, b) == IF a <= b THEN a ELSE b

\* numpy promotes a bool to 0/1 when it is stacked with integer arrays
AsNumber(d, v) == IF d = DtypeBool THEN (IF v THEN 1 ELSE 0) ELSE v

(***************************************************************************)
(* flagser(), lines 90-127.                                                 *)
(***************************************************************************)

RECURSIVE SumDiag(_, _, _, _)
\* sparse .diagonal(): the stored entries at (i, i), duplicates summed
SumDiag(d, entries, i, k) ==
    IF k > Len(entries) THEN 0
    ELSE (IF entries[k][1] = i /\ entries[k][2] = i
          THEN AsNumber(d, entries[k][3]) ELSE 0)
         + SumDiag(d, entries, i, k + 1)

\* line 90: vertices = np.asarray(flag_matrix.diagonal()).copy()
vertices(fm) ==
    LET n == Min(fm.shape[1], fm.shape[2]) IN
    IF fm.kind = "ndarray"
    THEN [i \in 1..n |-> fm.flat[(i - 1) * fm.shape[2] + (i - 1) + 1]]
    ELSE [i \in 1..n |->
            LET t == SumDiag(fm.dtype, fm.entries, i - 1, 1) IN
            IF fm.dtype = DtypeBool THEN t > 0 ELSE t]

\* lines 92-93: if not approximation: approximation = -1
approximationUnnormalised(a) == a

approximation(a) == IF a = 0 THEN -1 ELSE a

rowFromColumn(fm) ==
    IF fm.kind = "ndarray"
    THEN [k \in 1..(fm.shape[1] * fm.shape[2]) |-> (k - 1) % fm.shape[2]]
    ELSE [k \in 1..Len(fm.entries) |-> fm.entries[k][2]]

\* lines 96, 103: row
row(fm) ==
    IF fm.kind = "ndarray"
    THEN [k \in 1..(fm.shape[1] * fm.shape[2]) |-> (k - 1) \div fm.shape[2]]
    ELSE [k \in 1..Len(fm.entries) |-> fm.entries[k][1]]

\* lines 97, 103: column
column(fm) ==
    IF fm.kind = "ndarray"
    THEN [k \in 1..(fm.shape[1] * fm.shape[2]) |-> (k - 1) % fm.shape[2]]
    ELSE [k \in 1..Len(fm.entries) |-> fm.entries[k][2]]

\* lines 98, 104: data
data(fm) ==
    IF fm.kind = "ndarray"
    THEN fm.flat
    ELSE [k \in 1..Len(fm.entries) |-> fm.entries[k][3]]

mask_off_diagDropZeros(fm) ==
    IF fm.kind = "ndarray"
    THEN LET n == Len(vertices(fm)) IN
         [k \in 1..(n * n) |-> ((k - 1) \div n) /= ((k - 1) % n)
                                  /\ AsNumber(fm.dtype, fm.flat[k]) /= 0]
    ELSE [k \in 1..Len(fm.entries) |-> fm.entries[k][1] /= fm.entries[k][2]
                                          /\ AsNumber(fm.dtype, fm.entries[k][3]) /= 0]

mask_off_diagDenseAll(fm) ==
    IF fm.kind = "ndarray"
    THEN LET n == Len(vertices(fm)) IN [k \in 1..(n * n) |-> TRUE]
    ELSE [k \in 1..Len(fm.entries) |-> fm.entries[k][1] /= fm.entries[k][2]]

\* lines 99-100 (not eye(len(vertices))) and 105-106 (ones, False where
\* row == column); np.bool of line 105 is the boolean type, as in the numpy the
\* code was written for
mask_off_diag(fm) ==
    IF fm.kind = "ndarray"
    THEN LET n == Len(vertices(fm)) IN
         [k \in 1..(n * n) |-> ((k - 1) \div n) /= ((k - 1) % n)]
    ELSE [k \in 1..Len(fm.entries) |-> fm.entries[k][1] /= fm.entries[k][2]]

RECURSIVE Take(_, _, _)
\* arr[mask]: the elements of arr at the positions where mask is True. On the
\* ndarray path arr is a flat iterator, which accepts a mask shorter than
\* itself and reads only that prefix.
Take(arr, mask, k) ==
    IF k > Len(mask) THEN <<>>
    ELSE (IF mask[k] THEN <<arr[k]>> ELSE <<>>) \o Take(arr, mask, k + 1)

\* a boolean index longer than the indexed array is an error
IndexError(fm) == Len(mask_off_diag(fm)) > Len(data(fm))

\* line 108: flag_matrix.dtype is not bool (identity of two python objects)
weighted(fm) == fm.dtype /= PyBool

\* lines 108-114: edges
edges(fm) ==
    LET m == mask_off_diag(fm)
        r == Take(row(fm), m, 1)
        c == Take(column(fm), m, 1)
        d == Take(data(fm), m, 1)
    IN  IF weighted(fm)
        THEN [k \in 1..Len(r) |-> <<r[k], c[k], AsNumber(fm.dtype, d[k])>>]
        ELSE [k \in 1..Len(r) |-> <<r[k], c[k]>>]

\* np.inf, and an integer dimension
Inf == [inf |-> TRUE, n |-> 0]
Finite(n) == [inf |-> FALSE, n |-> n]

\* lines 116-119: _max_dimension
_max_dimension(d) == IF d.inf THEN -1 ELSE d.n

\* lines 4, 46-47: the filtrations the engine implements
implemented_filtrations ==
    {"dimension", "zero", "max", "max3", "max_plus_one", "product", "sum",
     "pmean", "pmoment", "remove_edges", "vertex_degree"}

filtrationKeep(f) == f

\* lines 121-124: filtration handed to the engine
filtration(f) == IF f \notin implemented_filtrations THEN "max" ELSE f

\* lines 122-123: the two lines printed for an unrecognized filtration
printed(f) ==
    IF f \notin implemented_filtrations
    THEN <<"Unrecognized filtration, using max", "Available algorithms">>
    ELSE <<>>

\* lines 126-127: the arguments of compute_homology
compute_homology(fm, p) ==
    [vertices |-> vertices(fm),
     edges |-> edges(fm),
     min_dimension |-> p.min_dimension,
     max_dimension |-> _max_dimension(p.max_dimension),
     directed |-> p.directed,
     coeff |-> p.coeff,
     approximation |-> approximation(p.approximation),
     filtration |-> filtration(p.filtration)]

\* line 7-8: the defaults of the signature
DefaultParams ==
    [min_dimension |-> 0, max_dimension |-> Inf, directed |-> TRUE,
     filtration |-> "max", coeff |-> 2, approximation |-> -1]

NoCall ==
    [made |-> FALSE, params |-> DefaultParams, raised |-> FALSE,
     engine |-> <<>>, printed |-> <<>>]

\* one call of flagser: whether it raised before line 126, the engine
\* invocations it made and what it printed
flagser(fm, p) ==
    IF IndexError(fm)
    THEN [made |-> TRUE, params |-> p, raised |-> TRUE, engine |-> <<>>,
          printed |-> <<>>]
    ELSE [made |-> TRUE, params |-> p, raised |-> FALSE,
          engine |-> <<compute_homology(fm, p)>>,
          printed |-> printed(p.filtration)]

InputAfterCallMasked(fm) ==
    IF fm.kind = "ndarray"
    THEN [fm EXCEPT !.flat = [k \in DOMAIN fm.flat |->
            IF (k - 1) \div fm.shape[2] = (k - 1) % fm.shape[2]
            THEN (IF fm.dtype = DtypeBool THEN FALSE ELSE 0) ELSE fm.flat[k]]]
    ELSE [fm EXCEPT !.entries = [k \in DOMAIN fm.entries |->
            IF fm.entries[k][1] = fm.entries[k][2]
            THEN <<fm.entries[k][1], fm.entries[k][2], 0>> ELSE fm.entries[k]]]

\* lines 90-114: the caller's matrix after the call. The diagonal is copied
\* (line 90) and the only in-place write (line 106) is to the fresh mask.
InputAfterCall(fm) == fm

(***************************************************************************)
(* Flag files (spec section 6) and test_weighted, test_flagio.py 24-36.     *)
(* A flag file is text: a vertex-weight line, then one line per edge        *)
(* (source, target, weight). A line is a sequence of tokens and a token is  *)
(* the sequence of decimal digits of a number.                              *)
(***************************************************************************)
RECURSIVE FormatNumber(_)
\* the decimal digits of n
FormatNumber(n) ==
    IF n < 10 THEN <<n>> ELSE FormatNumber(n \div 10) \o <<n % 10>>

RECURSIVE FormatNumberReversed(_)
FormatNumberReversed(n) ==
    IF n < 10 THEN <<n>> ELSE <<n % 10>> \o FormatNumberReversed(n \div 10)

\* how save_weighted_flag writes a number
WriteNumber(n) == FormatNumber(n)

RECURSIVE ParseNumber(_)
\* the number a token of decimal digits denotes
ParseNumber(tok) ==
    IF Len(tok) = 0 THEN 0
    ELSE 10 * ParseNumber(SubSeq(tok, 1, Len(tok) - 1)) + tok[Len(tok)]

\* load_weighted_flag: the sparse matrix with the vertex weights stored on
\* the diagonal and one stored entry per edge line, in file order
load_weighted_flag(lines) ==
    LET n == Len(lines[1])
        diag == [i \in 1..n |-> <<i - 1, i - 1, ParseNumber(lines[1][i])>>]
        off == [k \in 1..(Len(lines) - 1) |->
                    <<ParseNumber(lines[k + 1][1]), ParseNumber(lines[k + 1][2]),
                      ParseNumber(lines[k + 1][3])>>]
    IN  [kind |-> "sparse", dtype |-> DtypeInt, shape |-> <<n, n>>,
         flat |-> <<>>, entries |-> diag \o off]

\* _extract_weighted_graph: the vertex weights and the stored off-diagonal
\* entries whose weight does not exceed max_edge_length
_extract_weighted_graph(m, threshold) ==
    [vertices |-> vertices(m),
     edges |-> SelectSeq(m.entries,
                   LAMBDA e : e[1] /= e[2] /\ (threshold.inf \/ e[3] <= threshold.n))]

\* save_weighted_flag: the vertex-weight line, then the edge lines
save_weighted_flag(m) ==
    LET g == _extract_weighted_graph(m, Inf) IN
    << [i \in 1..Len(g.vertices) |-> WriteNumber(g.vertices[i])] >>
    \o [k \in 1..Len(g.edges) |->
            <<WriteNumber(g.edges[k][1]), WriteNumber(g.edges[k][2]),
              WriteNumber(g.edges[k][3])>>]

NoGraph == [vertices |-> <<>>, edges |-> <<>>]
NoMatrix ==
    [kind |-> "sparse", dtype |-> DtypeInt, shape |-> <<0, 0>>, flat |-> <<>>,
     entries |-> <<>>]
NoFile == [exists |-> FALSE, lines |-> <<>>]

\* the weights written in the flag files under test
Tokens == {<<0>>, <<1, 2>>}

\* the flag files under test: each edge is listed once and joins two
\* distinct declared vertices
EdgeLines(n) ==
    {e \in BoundedSeq({<< <<s>>, <<t>>, w >> : s \in 0..(n - 1), t \in 0..(n - 1),
                                             w \in Tokens}, MaxFileEdges) :
        /\ \A k \in DOMAIN e : e[k][1] /= e[k][2]
        /\ \A k, l \in DOMAIN e :
              (e[k][1] = e[l][1] /\ e[k][2] = e[l][2]) => k = l}

FlagFiles ==
    UNION {{<<v>> \o e : v \in [1..n -> Tokens], e \in EdgeLines(n)} :
            n \in 1..MaxFileN}

\* line 24: the parametrization of max_edge_length (0.1, 0.5, np.inf),
\* in the unit of the file weights
Thresholds == {Finite(1), Finite(5), Inf}

\* line 26
Load ==
    /\ pc = "load"
    /\ adjacency_matrix' = load_weighted_flag(flag_file)
    /\ pc' = "extract_a"
    /\ UNCHANGED <<flag_file, max_edge_length, fname_temp, graph_a, graph_b>>
    /\ UNCHANGED fvars

\* lines 27-28
ExtractA ==
    /\ pc = "extract_a"
    /\ graph_a' = _extract_weighted_graph(adjacency_matrix, max_edge_length)
    /\ pc' = "save"
    /\ UNCHANGED <<flag_file, max_edge_length, adjacency_matrix, fname_temp, graph_b>>
    /\ UNCHANGED fvars

\* lines 29-30
Save ==
    /\ pc = "save"
    /\ fname_temp' = [exists |-> TRUE, lines |-> save_weighted_flag(adjacency_matrix)]
    /\ pc' = "reload"
    /\ UNCHANGED <<flag_file, max_edge_length, adjacency_matrix, graph_a, graph_b>>
    /\ UNCHANGED fvars

\* line 31
Reload ==
    /\ pc = "reload"
    /\ adjacency_matrix' = load_weighted_flag(fname_temp.lines)
    /\ pc' = "extract_b"
    /\ UNCHANGED <<flag_file, max_edge_length, fname_temp, graph_a, graph_b>>
    /\ UNCHANGED fvars

\* lines 32-33
ExtractB ==
    /\ pc = "extract_b"
    /\ graph_b' = _extract_weighted_graph(adjacency_matrix, max_edge_length)
    /\ pc' = "remove"
    /\ UNCHANGED <<flag_file, max_edge_length, adjacency_matrix, fname_temp, graph_a>>
    /\ UNCHANGED fvars

\* line 34; the assertions of lines 35-36 compare vertices_a with itself and
\* edges_b with itself, and so always pass
Remove ==
    /\ pc = "remove"
    /\ fname_temp' = NoFile
    /\ pc' = "done"
    /\ UNCHANGED <<flag_file, max_edge_length, adjacency_matrix, graph_a, graph_b>>
    /\ UNCHANGED fvars

IdleIO ==
    /\ pc = "idle"
    /\ flag_file = <<>>
    /\ max_edge_length = Inf
    /\ adjacency_matrix = NoMatrix
    /\ fname_temp = NoFile
    /\ graph_a = NoGraph
    /\ graph_b = NoGraph

InitFlagIO ==
    /\ flag_matrix = NoMatrix
    /\ first = NoCall
    /\ last = NoCall
    /\ ncalls = 0
    /\ pc = "load"
    /\ flag_file \in FlagFiles
    /\ max_edge_length \in Thresholds
    /\ adjacency_matrix = NoMatrix
    /\ fname_temp = NoFile
    /\ graph_a = NoGraph
    /\ graph_b = NoGraph

NextFlagIO == Load \/ ExtractA \/ Save \/ Reload \/ ExtractB \/ Remove

SpecFlagIO == InitFlagIO /\ [][NextFlagIO]_vars

(***************************************************************************)
(* The specification.                                                       *)
(***************************************************************************)
IngestParams ==
    {DefaultParams, [DefaultParams EXCEPT !.directed = FALSE, !.coeff = 3]}

CallParams ==
    [min_dimension : {-1, 0}, max_dimension : {Inf, Finite(1)}, directed : {TRUE},
     filtration : {"max", "sum", "maxx"}, coeff : {2}, approximation : {-1, 0, 3}]

Call(p) ==
    /\ last' = flagser(flag_matrix, p)
    /\ first' = IF ncalls = 0 THEN flagser(flag_matrix, p) ELSE first
    /\ flag_matrix' = InputAfterCall(flag_matrix)
    /\ ncalls' = ncalls + 1
    /\ UNCHANGED iovars

Init ==
    /\ flag_matrix \in DenseMatrices(MaxN) \cup SparseMatrices(MaxN, MaxStored)
    /\ first = NoCall
    /\ last = NoCall
    /\ ncalls = 0
    /\ IdleIO

Next == ncalls = 0 /\ \E p \in IngestParams : Call(p)

Spec == Init /\ [][Next]_vars

(***************************************************************************)
(* Runs of several calls on one matrix, the parameters varying.             *)
(***************************************************************************)
CallMatrices ==
    {[kind |-> "ndarray", dtype |-> DtypeInt, shape |-> <<2, 2>>,
      flat |-> <<1, 2, 0, 1>>, entries |-> <<>>],
     [kind |-> "ndarray", dtype |-> DtypeBool, shape |-> <<2, 2>>,
      flat |-> <<TRUE, TRUE, FALSE, FALSE>>, entries |-> <<>>],
     [kind |-> "ndarray", dtype |-> DtypeInt, shape |-> <<1, 1>>,
      flat |-> <<0>>, entries |-> <<>>],
     [kind |-> "sparse", dtype |-> DtypeInt, shape |-> <<2, 2>>,
      flat |-> <<>>, entries |-> << <<0, 0, 2>>, <<0, 1, 1>> >>],
     [kind |-> "sparse", dtype |-> DtypeInt, shape |-> <<2, 2>>,
      flat |-> <<>>, entries |-> << <<1, 0, 0>> >>]}

InitCalls ==
    /\ flag_matrix \in CallMatrices
    /\ first = NoCall
    /\ last = NoCall
    /\ ncalls = 0
    /\ IdleIO

NextCalls == ncalls < MaxCalls /\ \E p \in CallParams : Call(p)

SpecCalls == InitCalls /\ [][NextCalls]_vars

(***************************************************************************)
(* The claims.                                                              *)
(***************************************************************************)
Square(fm) == fm.shape[1] = fm.shape[2]

\* the flagser call just made reached line 126 and invoked the engine once
Invoked == last.made /\ ~last.raised /\ Len(last.engine) = 1

\* cell (i, j) of a dense matrix, 0-based
Cell(fm, i, j) == fm.flat[i * fm.shape[2] + j + 1]

\* how many elements of the sequence s equal t
Count(s, t) == Cardinality({k \in DOMAIN s : s[k] = t})

\* C1: for a dense n x n matrix the engine receives exactly one edge
\* (i, j, M[i,j]) for every ordered pair i /= j, n*(n-1) edges in all, zero
\* cells included, and no edge (i, i).
C1_DenseEdges ==
    (last.made /\ flag_matrix.kind = "ndarray" /\ Square(flag_matrix)) =>
        /\ Invoked
        /\ LET n == flag_matrix.shape[1]
               E == last.engine[1].edges
           IN  /\ Len(E) = n * (n - 1)
               /\ \A i, j \in 0..(n - 1) :
                     i /= j =>
                        /\ Cardinality({k \in DOMAIN E : E[k][1] = i /\ E[k][2] = j}) = 1
                        /\ Count(E, <<i, j, AsNumber(flag_matrix.dtype,
                                                     Cell(flag_matrix, i, j))>>) = 1
               /\ \A k \in DOMAIN E : E[k][1] /= E[k][2]

C1_Witness ==
    /\ Invoked
    /\ flag_matrix.kind = "ndarray"
    /\ flag_matrix.shape = <<2, 2>>
    /\ flag_matrix.dtype = DtypeInt
    /\ Cell(flag_matrix, 0, 1) = 0
    /\ Cell(flag_matrix, 1, 0) = 2
    /\ last.engine[1].edges = << <<0, 1, 0>>, <<1, 0, 2>> >>

\* C2: for a sparse matrix the engine receives one edge per stored
\* off-diagonal entry (stored zeros included) and nothing else; a stored
\* diagonal entry is a vertex weight and never an edge.
C2_SparseEdges ==
    (last.made /\ flag_matrix.kind = "sparse") =>
        /\ Invoked
        /\ LET S == flag_matrix.entries
               E == last.engine[1].edges
               V == last.engine[1].vertices
           IN  /\ \A i \in 0..(flag_matrix.shape[1] - 1),
                     j \in 0..(flag_matrix.shape[2] - 1), w \in Weights :
                     Count(E, <<i, j, w>>) = IF i = j THEN 0 ELSE Count(S, <<i, j, w>>)
               /\ Len(E) = Cardinality({k \in DOMAIN S : S[k][1] /= S[k][2]})
               /\ \A k \in DOMAIN S :
                     (S[k][1] = S[k][2]
                        /\ \A l \in DOMAIN S : (S[l][1] = S[k][1] /\ S[l][2] = S[k][2]) => l = k)
                     => V[S[k][1] + 1] = S[k][3]

C2_Witness ==
    /\ Invoked
    /\ flag_matrix.kind = "sparse"
    /\ flag_matrix.shape = <<2, 2>>
    /\ flag_matrix.entries = << <<1, 1, 2>>, <<1, 0, 0>> >>
    /\ last.engine[1].edges = << <<1, 0, 0>> >>
    /\ last.engine[1].vertices = <<0, 2>>

\* the COO matrix that stores the non-zero cells of a dense matrix, row-major
NonZeroCoo(fm) ==
    [kind |-> "sparse", dtype |-> fm.dtype, shape |-> fm.shape, flat |-> <<>>,
     entries |->
        LET all == [k \in 1..Len(fm.flat) |->
                        <<(k - 1) \div fm.shape[2], (k - 1) % fm.shape[2], fm.flat[k]>>]
        IN  SelectSeq(all, LAMBDA e : AsNumber(fm.dtype, e[3]) /= 0)]

\* the COO matrix that stores every off-diagonal cell of a dense matrix, the
\* zero cells included, and its non-zero diagonal cells, row-major
ExplicitCoo(fm) ==
    [kind |-> "sparse", dtype |-> fm.dtype, shape |-> fm.shape, flat |-> <<>>,
     entries |->
        LET all == [k \in 1..Len(fm.flat) |->
                        <<(k - 1) \div fm.shape[2], (k - 1) % fm.shape[2], fm.flat[k]>>]
        IN  SelectSeq(all, LAMBDA e : e[1] /= e[2] \/ AsNumber(fm.dtype, e[3]) /= 0)]

C4_EdgeShape ==
    (Invoked /\ Square(flag_matrix)) =>
        LET E == last.engine[1].edges IN
        /\ flag_matrix.dtype = DtypeBool => \A k \in DOMAIN E : Len(E[k]) = 2
        /\ flag_matrix.dtype /= DtypeBool => \A k \in DOMAIN E : Len(E[k]) = 3
        /\ Len(last.engine[1].vertices) = flag_matrix.shape[1]

\* C5: a call with a non-square matrix raises and does not invoke the engine.
C5_NonSquareRejected ==
    (last.made /\ ~Square(flag_matrix)) => (last.raised /\ last.engine = <<>>)

\* C6: a call with a negative min_dimension raises and does not invoke the
\* engine; the engine never receives min_dimension < 0.
C6_NegativeMinDimensionRejected ==
    /\ (last.made /\ last.params.min_dimension < 0) =>
            (last.raised /\ last.engine = <<>>)
    /\ \A k \in DOMAIN last.engine : last.engine[k].min_dimension >= 0

\* C7: an unrecognized filtration prints a warning and reaches the engine as
\* "max"; an implemented one is passed unchanged without a warning; the call
\* does not fail and the engine always receives an implemented filtration.
C7_FiltrationFallback ==
    last.made =>
        /\ Invoked
        /\ last.engine[1].filtration \in implemented_filtrations
        /\ last.params.filtration \notin implemented_filtrations =>
                (last.printed /= <<>> /\ last.engine[1].filtration = "max")
        /\ last.params.filtration \in implemented_filtrations =>
                (last.printed = <<>>
                 /\ last.engine[1].filtration = last.params.filtration)

C7_Witness ==
    /\ Invoked
    /\ last.params.filtration = "maxx"
    /\ last.engine[1].filtration = "max"
    /\ Len(last.printed) = 2

\* C8: a call with approximation 0 hands the engine the same arguments as the
\* call with approximation -1 (approximation normalised to -1); a positive
\* approximation is passed unchanged.
C8_ApproximationZeroIsExact ==
    /\ (first.made /\ last.made
        /\ first.params.approximation \in {0, -1}
        /\ last.params.approximation \in {0, -1}
        /\ [first.params EXCEPT !.approximation = -1]
              = [last.params EXCEPT !.approximation = -1])
            => (first.engine = last.engine /\ first.raised = last.raised)
    /\ (Invoked /\ last.params.approximation = 0) =>
            last.engine[1].approximation = -1
    /\ (Invoked /\ last.params.approximation > 0) =>
            last.engine[1].approximation = last.params.approximation

C8_Witness ==
    /\ ncalls = 3
    /\ Invoked
    /\ first.params.approximation = 0
    /\ last.params.approximation = -1
    /\ [first.params EXCEPT !.approximation = -1] = last.params
    /\ first.engine[1].approximation = -1

====
